---- MODULE Spec2Model ----
(***************************************************************************)
(* gamer-sidekick: the patcher phase (src/lib/patcher.py).                 *)
(*                                                                         *)
(* A run walks the patch catalog (patch.json) in order.  Every entry names *)
(* a source file of the patch folder, a target path relative to the game   *)
(* directories, a method (replace | patch) and two optional CRC32 strings. *)
(* The file system is the only state the program keeps between runs: the   *)
(* target under every game directory and its sidecar <target>.backup.      *)
(* File contents are small integers; -1 stands for "no such file".         *)
(*                                                                         *)
(* The configurer phase (src/lib/configurer.py) follows it.  For a path of *)
(* an entry of 'files', run() calls a modify function for every entry of   *)
(* 'replacements' (text: a regular expression and a value given to re.sub; *)
(* hexadecimal: pattern and value in ASCII notation) and one for the list  *)
(* 'hex_replacements'.  Here a file is the sequence of its bytes, a string *)
(* the sequence of its characters, and <<-2>> stands for "no such file".   *)
(*                                                                         *)
(* SpecPatched follows the temporary file <target>.patched that the patch  *)
(* tool writes and patch_file_with_backup_check moves onto the target.     *)
(*                                                                         *)
(* The saver phase (src/lib/saver.py) runs first.  SpecSaver follows the   *)
(* strategy 'sync' for one game: the original save directory, its backup   *)
(* directory, and the metadata file .gamer-sidekick in each, which records *)
(* the newest modification time seen by the last sync.  A file there is    *)
(* its modification time and its data.                                     *)
(***************************************************************************)
EXTENDS Integers, Sequences, FiniteSets, TLC

\* ------------------------------------------------------------------ bounds
MaxContent == 2
NumRoots == 2
MaxPatches == 2
MaxRuns == 2
MaxLen == 3
MaxReps == 2
MaxTime == 3

Absent == 0 - 1
Content == 0..MaxContent
Roots == 1..NumRoots

\* ------------------------------------------------- fingerprints and strings
\* zlib.crc32 maps arbitrarily long byte strings onto 32 bits, so distinct
\* contents can share a fingerprint: contents 2k and 2k+1 do here.
calculate_crc32(content) == content \div 2

Fingerprints == {calculate_crc32(c) : c \in Content}

HexChars == <<"0", "1", "2", "3", "4", "5", "6", "7",
              "8", "9", "A", "B", "C", "D", "E", "F">>

\* f"{n:08X}": the eight hex digits of n, most significant first.
RECURSIVE HexDigits(_, _)
HexDigits(n, width) ==
    IF width = 0 THEN <<>>
    ELSE Append(HexDigits(n \div 16, width - 1), HexChars[(n % 16) + 1])

Hex8(n) == HexDigits(n, 8)

IsHexChar(ch) == \E i \in 1..16 : HexChars[i] = ch

DigitValue(ch) == CHOOSE i \in 0..15 : HexChars[i + 1] = ch

\* int(s, 16) raises ValueError on a string that is not a hex numeral.
IsHexString(s) == Len(s) > 0 /\ \A i \in 1..Len(s) : IsHexChar(s[i])

RECURSIVE Int16(_)
Int16(s) ==
    IF Len(s) = 0 THEN 0
    ELSE 16 * Int16(SubSeq(s, 1, Len(s) - 1)) + DigitValue(s[Len(s)])

\* patch_info.get('target_crc32'): None and "" are both falsy, modelled <<>>.
NoCrc == <<>>
Malformed == <<"z", "z">>
CrcStrings == {NoCrc, Malformed} \cup {Hex8(f) : f \in Fingerprints}

Truthy(s) == Len(s) > 0

\* int(s, 16) of every string a catalog can hold; NoValue where it raises.
NoValue == 0 - 1
ParsedCrc == [s \in CrcStrings |-> IF IsHexString(s) THEN Int16(s) ELSE NoValue]

\* ------------------------------------------------------------ the catalog
Files == {"a", "gone"}
\* patch_info['method']: "" stands for an entry without the key.
NoMethod == ""
Methods == {"replace", "patch", "other", NoMethod}

PatchInfo(f, m, t, p) ==
    [file |-> f, method |-> m, target_crc32 |-> t, patched_crc32 |-> p]

\* The entries of patch.json; the target's relative path is the same for
\* all.  An entry whose source file is missing is left before any other
\* field is read, and an unknown method is read after the CRC strings have
\* been: one entry of each kind stands for the others.
PatchInfos ==
    {PatchInfo("a", m, t, p) :
        m \in {"replace", "patch"}, t \in CrcStrings, p \in CrcStrings}
    \cup {PatchInfo("gone", m, NoCrc, NoCrc) : m \in {"replace", "patch"}}
    \cup {PatchInfo("a", m, NoCrc, NoCrc) : m \in {"other", NoMethod}}

\* --------------------------------------------------------- the external tool
\* flips -a <patch> <target> <target>.patched: a non-zero exit, or exit 0
\* with the output file written.
ToolFail == 0 - 1
Unknown == 0 - 2
ToolResults == Content \cup {ToolFail}

\* ------------------------------------------------------------------ state
VARIABLES
    target,      \* target[r]: content of <root r>/<relative path>, or Absent
    backup,      \* backup[r]: content of <root r>/<relative path>.backup
    source,      \* content of the patch folder's file "a"
    patches,     \* the catalog every run replays (SpecCatalog), else <<>>
    flips,       \* flips[t]: what the tool made of target content t, once run
    walking,     \* run() is inside its loop over the catalog
    idx,         \* the entry the loop is at
    run,         \* number of runs started (SpecCatalog)
    ended,       \* ended[n]: how run n ended (SpecCatalog)
    log,         \* log[n][i]: the outcome logged for entry i in run n
    snap,        \* snap[n]: the file system when run n ended
    last,        \* the last call of process_single_patch: what it saw and did
    pristine,    \* the targets as they were before the first run
    patched_file, \* patched_file[r]: content of <target>.patched under root r
    attempt,     \* the last call of the tool: what it found and returned
    src_dir,     \* the game's save directory: src_dir[rel] is a file or NoSave
    dst_dir,     \* its copy under SAVESCOPY_PATH
    now,         \* the clock that stamps the files written
    synced,      \* the last call of _sync_one_manifest: what it saw and did
    quiet,       \* no save file was changed since a sync ran to its end
    config_file, \* the bytes of the file the configurer is at, or NoFile
    configuring, \* where configurer.run() is with that file
    steps,       \* the entries of 'replacements' it has been through
    writes,      \* how many times it has written the file
    call         \* the last call of a modify function: what it saw and did

patcher_vars ==
    <<target, backup, source, patches, flips, walking, idx, run,
      ended, log, snap, last, pristine>>

\* <target>.patched is written by the tool and read by os.replace alone; it
\* is followed in SpecPatched and left out of the file system elsewhere.
patched_vars == <<patched_file, attempt>>

configurer_vars == <<config_file, configuring, steps, writes, call>>

saver_vars == <<src_dir, dst_dir, now, synced, quiet>>

vars == <<patcher_vars, patched_vars, configurer_vars, saver_vars>>

Outcomes ==
    {"source_missing", "not_found", "already_patched", "mismatch", "drift",
     "applied", "tool_error", "ignored", "raised"}

SourceContent(file) == IF file = "a" THEN source ELSE Absent

\* ------------------------------------------------------- patcher.py, pure
\* Mutant of check_file_status: a mismatch with the declared targetCrc32 is
\* let through.
check_file_status_without_gate(content, target_crc32, patched_crc32) ==
    LET actual_crc32 == calculate_crc32(content) IN
    IF Truthy(patched_crc32) /\ ParsedCrc[patched_crc32] = NoValue THEN "raise"
    ELSE IF Truthy(patched_crc32) /\ actual_crc32 = ParsedCrc[patched_crc32]
        THEN "already_patched"
    ELSE IF Truthy(target_crc32) /\ ParsedCrc[target_crc32] = NoValue THEN "raise"
    ELSE "ready"

\* check_file_status: "raise" stands for the ValueError of int(s, 16).
check_file_status(content, target_crc32, patched_crc32) ==
    LET actual_crc32 == calculate_crc32(content) IN
    IF Truthy(patched_crc32) /\ ParsedCrc[patched_crc32] = NoValue THEN "raise"
    ELSE IF Truthy(patched_crc32) /\ actual_crc32 = ParsedCrc[patched_crc32]
        THEN "already_patched"
    ELSE IF ~Truthy(target_crc32) THEN "ready"
    ELSE IF ParsedCrc[target_crc32] = NoValue THEN "raise"
    ELSE IF actual_crc32 = ParsedCrc[target_crc32] THEN "ready"
    ELSE "mismatch"

\* What one applier leaves of one target and its backup.
Effect(t, b, o, inv) == [target |-> t, backup |-> b, outcome |-> o, invoked |-> inv]

\* Mutant of apply_replacement: the backup is taken after the copy of the
\* source, not before.
apply_replacement_backup_after(src, tgt, bak) ==
    IF bak # Absent /\ calculate_crc32(tgt) # calculate_crc32(bak)
    THEN IF calculate_crc32(tgt) = calculate_crc32(src)
         THEN Effect(tgt, bak, "already_patched", FALSE)
         ELSE Effect(tgt, bak, "drift", FALSE)
    ELSE Effect(src, IF bak = Absent THEN src ELSE bak, "applied", FALSE)

\* Mutant of apply_replacement: the backup is taken on every call.
apply_replacement_backup_always(src, tgt, bak) ==
    Effect(src, tgt, "applied", FALSE)

\* shutil.copy2(target, backup) if there is no backup, then
\* shutil.copy2(source, target); with a backup, only if the target still has
\* the backup's CRC32.
apply_replacement(src, tgt, bak) ==
    IF bak # Absent /\ calculate_crc32(tgt) # calculate_crc32(bak)
    THEN IF calculate_crc32(tgt) = calculate_crc32(src)
         THEN Effect(tgt, bak, "already_patched", FALSE)
         ELSE Effect(tgt, bak, "drift", FALSE)
    ELSE Effect(src, IF bak = Absent THEN tgt ELSE bak, "applied", FALSE)

\* Mutant of patch_file_with_backup_check: the tool runs whatever the backup
\* says.
patch_file_without_backup_check(patch_info, tgt, bak, tool) ==
    LET expected == patch_info.target_crc32 IN
    IF Truthy(expected) /\ ParsedCrc[expected] = NoValue
    THEN Effect(tgt, bak, "raised", FALSE)
    ELSE IF Truthy(expected) /\ calculate_crc32(tgt) # ParsedCrc[expected]
    THEN Effect(tgt, bak, "mismatch", FALSE)
    ELSE LET kept == IF bak = Absent THEN tgt ELSE bak IN
         IF tool = ToolFail
         THEN Effect(tgt, kept, "tool_error", TRUE)
         ELSE Effect(tool, kept, "applied", TRUE)

\* Mutant of patch_file_with_backup_check: the backup is kept only if the
\* tool succeeds.
patch_file_with_backup_on_success(patch_info, tgt, bak, tool) ==
    LET expected == patch_info.target_crc32
        patched == patch_info.patched_crc32
    IN
    IF Truthy(expected) /\ ParsedCrc[expected] = NoValue
    THEN Effect(tgt, bak, "raised", FALSE)
    ELSE IF Truthy(expected) /\ calculate_crc32(tgt) # ParsedCrc[expected]
    THEN Effect(tgt, bak, "mismatch", FALSE)
    ELSE IF bak # Absent /\ calculate_crc32(tgt) # calculate_crc32(bak)
    THEN IF Truthy(patched) /\ ParsedCrc[patched] = NoValue
         THEN Effect(tgt, bak, "raised", FALSE)
         ELSE IF Truthy(patched) /\ calculate_crc32(tgt) = ParsedCrc[patched]
         THEN Effect(tgt, bak, "already_patched", FALSE)
         ELSE Effect(tgt, bak, "drift", FALSE)
    ELSE IF tool = ToolFail
         THEN Effect(tgt, bak, "tool_error", TRUE)
         ELSE Effect(tool, IF bak = Absent THEN tgt ELSE bak, "applied", TRUE)

\* tool: the result of the external tool on (source_file, target_file).
patch_file_with_backup_check(patch_info, tgt, bak, tool) ==
    LET expected == patch_info.target_crc32
        patched == patch_info.patched_crc32
    IN
    IF Truthy(expected) /\ ParsedCrc[expected] = NoValue
    THEN Effect(tgt, bak, "raised", FALSE)
    ELSE IF Truthy(expected) /\ calculate_crc32(tgt) # ParsedCrc[expected]
    THEN Effect(tgt, bak, "mismatch", FALSE)
    ELSE IF bak # Absent /\ calculate_crc32(tgt) # calculate_crc32(bak)
    THEN IF Truthy(patched) /\ ParsedCrc[patched] = NoValue
         THEN Effect(tgt, bak, "raised", FALSE)
         ELSE IF Truthy(patched) /\ calculate_crc32(tgt) = ParsedCrc[patched]
         THEN Effect(tgt, bak, "already_patched", FALSE)
         ELSE Effect(tgt, bak, "drift", FALSE)
    ELSE LET kept == IF bak = Absent THEN tgt ELSE bak IN
         IF tool = ToolFail
         THEN Effect(tgt, kept, "tool_error", TRUE)
         ELSE Effect(tool, kept, "applied", TRUE)

\* What a call of patch_file_with_backup_check leaves of <target>.patched
\* too.
Files3(t, b, p, o) == [target |-> t, backup |-> b, patched |-> p, outcome |-> o]

\* subprocess.run(flips -a source target target.patched): exit 0 with the
\* output file written over whatever was there, or a non-zero exit with the
\* file as the tool left it (left).
subprocess_run(tool, left) ==
    [returncode |-> IF tool = ToolFail THEN 1 ELSE 0,
     patched |-> IF tool = ToolFail THEN left ELSE tool]

\* Mutant of patch_file_to_patched: os.replace is not under the test of the
\* return code, a file that is there is moved onto the target.
patch_file_to_patched_replace_always(patch_info, tgt, bak, tmp, tool, left) ==
    LET gates == patch_file_with_backup_check(patch_info, tgt, bak, tool)
        result == subprocess_run(tool, left)
    IN
    IF ~gates.invoked THEN Files3(tgt, bak, tmp, gates.outcome)
    ELSE IF result.patched # Absent
    THEN Files3(result.patched, gates.backup, Absent,
                IF result.returncode = 0 THEN "applied" ELSE "tool_error")
    ELSE Files3(tgt, gates.backup, result.patched, "tool_error")

\* patch_file_with_backup_check with the file <target>.patched (tmp): the
\* gates, then the tool writes the file and os.replace moves it onto the
\* target if the tool returned 0; nothing removes it otherwise.
patch_file_to_patched(patch_info, tgt, bak, tmp, tool, left) ==
    LET gates == patch_file_with_backup_check(patch_info, tgt, bak, tool)
        result == subprocess_run(tool, left)
    IN
    IF ~gates.invoked THEN Files3(tgt, bak, tmp, gates.outcome)
    ELSE IF result.returncode = 0
    THEN Files3(result.patched, gates.backup, Absent, "applied")
    ELSE Files3(tgt, gates.backup, result.patched, "tool_error")

\* patch_info['method'] raises KeyError when the entry has no method.
apply_patch_to_file(patch_info, src, tgt, bak, tool) ==
    IF patch_info.method = NoMethod THEN Effect(tgt, bak, "raised", FALSE)
    ELSE IF patch_info.method = "replace" THEN apply_replacement(src, tgt, bak)
    ELSE IF patch_info.method = "patch"
    THEN patch_file_with_backup_check(patch_info, tgt, bak, tool)
    ELSE Effect(tgt, bak, "ignored", FALSE)

\* Mutant of first_root: the last root that holds the target.
last_root(tree) ==
    IF \E r \in Roots : tree[r] # Absent
    THEN CHOOSE r \in Roots :
            tree[r] # Absent /\ \A q \in Roots : q > r => tree[q] = Absent
    ELSE 0

\* The loop over get_game_dirs(): the first root that holds the target, 0 if
\* none does.
first_root(tree) ==
    IF \E r \in Roots : tree[r] # Absent
    THEN CHOOSE r \in Roots :
            tree[r] # Absent /\ \A q \in Roots : q < r => tree[q] = Absent
    ELSE 0

\* Mutant of process_single_patch: the source file is looked for after the
\* target has been backed up.
process_single_patch_source_checked_late(patch_info, src, tgts, baks, tool) ==
    LET r == first_root(tgts) IN
    IF r = 0
    THEN [root |-> 0, effect |-> Effect(Absent, Absent, "not_found", FALSE)]
    ELSE IF src = Absent
    THEN [root |-> r,
          effect |-> Effect(tgts[r], IF baks[r] = Absent THEN tgts[r] ELSE baks[r],
                            "source_missing", FALSE)]
    ELSE LET status == check_file_status(tgts[r], patch_info.target_crc32,
                                         patch_info.patched_crc32)
         IN [root |-> r,
             effect |->
                IF status = "raise" THEN Effect(tgts[r], baks[r], "raised", FALSE)
                ELSE IF status = "already_patched"
                THEN Effect(tgts[r], baks[r], "already_patched", FALSE)
                ELSE IF status = "ready"
                THEN apply_patch_to_file(patch_info, src, tgts[r], baks[r], tool)
                ELSE Effect(tgts[r], baks[r], "mismatch", FALSE)]

\* process_single_patch on the file system (tgts, baks): the root it
\* resolved (0 if none) and what it left there.
process_single_patch(patch_info, src, tgts, baks, tool) ==
    LET r == first_root(tgts) IN
    IF src = Absent
    THEN [root |-> 0, effect |-> Effect(Absent, Absent, "source_missing", FALSE)]
    ELSE IF r = 0
    THEN [root |-> 0, effect |-> Effect(Absent, Absent, "not_found", FALSE)]
    ELSE LET status == check_file_status(tgts[r], patch_info.target_crc32,
                                         patch_info.patched_crc32)
         IN [root |-> r,
             effect |->
                IF status = "raise" THEN Effect(tgts[r], baks[r], "raised", FALSE)
                ELSE IF status = "already_patched"
                THEN Effect(tgts[r], baks[r], "already_patched", FALSE)
                ELSE IF status = "ready"
                THEN apply_patch_to_file(patch_info, src, tgts[r], baks[r], tool)
                ELSE Effect(tgts[r], baks[r], "mismatch", FALSE)]

\* ----------------------------------------------- configurer.py, strings
\* A local variable: Then(v) for v the value assigned to it.
Local(value, Then(_)) == CHOOSE result \in {Then(v) : v \in {value}} : TRUE

\* A string is a sequence of one-character strings, a bytes object a
\* sequence of numbers in 0..255.
LowerHexChars == <<"0", "1", "2", "3", "4", "5", "6", "7",
                   "8", "9", "a", "b", "c", "d", "e", "f">>

RECURSIVE LowerHexDigits(_)
LowerHexDigits(n) ==
    IF n < 16 THEN <<LowerHexChars[n + 1]>>
    ELSE Append(LowerHexDigits(n \div 16), LowerHexChars[(n % 16) + 1])

\* f"{n:02x}": at least two lower-case hex digits.
Hex02(n) == IF n < 16 THEN <<"0">> \o LowerHexDigits(n) ELSE LowerHexDigits(n)

\* c in '0123456789abcdefABCDEF'
IsHexDigit(ch) ==
    \E i \in 1..16 : LowerHexChars[i] = ch \/ HexChars[i] = ch

HexDigitValue(ch) ==
    CHOOSE i \in 0..15 : LowerHexChars[i + 1] = ch \/ HexChars[i + 1] = ch

\* The ValueError a conversion raises, where bytes were expected.
ValueError == <<0 - 1>>

RECURSIVE HexPairs(_)
HexPairs(s) ==
    IF Len(s) = 0 THEN <<>>
    ELSE <<16 * HexDigitValue(s[1]) + HexDigitValue(s[2])>>
            \o HexPairs(SubSeq(s, 3, Len(s)))

\* bytes.fromhex(s) of a string without blanks: ValueError on an odd number
\* of digits or on a character that is no hex digit.
fromhex(s) ==
    IF Len(s) % 2 = 0 /\ \A i \in 1..Len(s) : IsHexDigit(s[i])
    THEN HexPairs(s)
    ELSE ValueError

IsBlank(ch) == ch = " "

\* s.replace(' ', '')
RemoveBlanks(s) == SelectSeq(s, LAMBDA ch : ~IsBlank(ch))

\* s.strip()
strip(s) ==
    LET inked == {i \in 1..Len(s) : ~IsBlank(s[i])} IN
    IF inked = {} THEN <<>>
    ELSE SubSeq(s, CHOOSE i \in inked : \A j \in inked : i <= j,
                   CHOOSE i \in inked : \A j \in inked : i >= j)

\* '??' in hex_pattern
HasWildcard(s) == \E i \in 1..(Len(s) - 1) : s[i] = "?" /\ s[i + 1] = "?"

\* hex_pattern.split('??'): the parts between the non-overlapping
\* occurrences of '??', leftmost first.
RECURSIVE split(_)
split(s) ==
    IF ~HasWildcard(s) THEN <<s>>
    ELSE LET i == CHOOSE i \in 1..(Len(s) - 1) :
                    /\ s[i] = "?" /\ s[i + 1] = "?"
                    /\ \A j \in 1..(i - 1) : ~(s[j] = "?" /\ s[j + 1] = "?")
         IN <<SubSeq(s, 1, i - 1)>> \o split(SubSeq(s, i + 2, Len(s)))

\* content[i:j] of Python, i and j counted from 0.
Slice(content, i, j) == SubSeq(content, i + 1, IF j > Len(content) THEN Len(content) ELSE j)

\* ------------------------------------------- configurer.py, hex replacement
\* What one replacement made of the in-memory content.
Replaced(content, changed, outcome) ==
    [content |-> content, changed |-> changed, outcome |-> outcome]

apply_wildcard_replacement(content, hex_pattern, hex_value) ==
    Local(split(hex_pattern), LAMBDA pattern_parts :
    IF Len(pattern_parts) # 2
    THEN Replaced(content, FALSE, "invalid_wildcard")
    ELSE
    Local(strip(pattern_parts[1]), LAMBDA prefix_hex :
    Local(strip(pattern_parts[2]), LAMBDA suffix_hex :
    Local(IF Len(prefix_hex) > 0 THEN fromhex(RemoveBlanks(prefix_hex)) ELSE <<>>,
      LAMBDA prefix_bytes :
    Local(IF Len(suffix_hex) > 0 THEN fromhex(RemoveBlanks(suffix_hex)) ELSE <<>>,
      LAMBDA suffix_bytes :
    Local(fromhex(RemoveBlanks(hex_value)), LAMBDA value_bytes :
        IF ValueError \in {prefix_bytes, suffix_bytes, value_bytes}
        THEN Replaced(content, FALSE, "ValueError")
        ELSE
        LET pattern_length == Len(prefix_bytes) + 1 + Len(suffix_bytes)
            suffix_start(i) == i + Len(prefix_bytes) + 1
        IN
        Local({i \in 0..(Len(content) - pattern_length) :
                /\ Slice(content, i, i + Len(prefix_bytes)) = prefix_bytes
                /\ Slice(content, suffix_start(i),
                         suffix_start(i) + Len(suffix_bytes)) = suffix_bytes},
          LAMBDA found :
            IF found = {}
            THEN Replaced(content, FALSE, "not_found")
            ELSE LET i == CHOOSE i \in found : \A j \in found : i <= j IN
                 Replaced(Slice(content, 0, i) \o value_bytes
                            \o Slice(content, i + pattern_length, Len(content)),
                          TRUE, "replaced"))))))))

\* pattern_bytes in content
Occurs(pattern_bytes, content) ==
    \E i \in 0..(Len(content) - Len(pattern_bytes)) :
        Slice(content, i, i + Len(pattern_bytes)) = pattern_bytes

\* content.replace(pattern_bytes, value_bytes): every non-overlapping
\* occurrence, leftmost first; an empty pattern occurs before every byte and
\* at the end.
RECURSIVE replace(_, _, _)
replace(content, pattern_bytes, value_bytes) ==
    IF Len(pattern_bytes) = 0
    THEN IF Len(content) = 0 THEN value_bytes
         ELSE value_bytes \o <<content[1]>>
                \o replace(Tail(content), pattern_bytes, value_bytes)
    ELSE IF Len(content) < Len(pattern_bytes) THEN content
    ELSE IF Slice(content, 0, Len(pattern_bytes)) = pattern_bytes
    THEN value_bytes \o replace(Slice(content, Len(pattern_bytes), Len(content)),
                                pattern_bytes, value_bytes)
    ELSE <<content[1]>> \o replace(Tail(content), pattern_bytes, value_bytes)

apply_exact_replacement(content, hex_pattern, hex_value) ==
    Local(fromhex(RemoveBlanks(hex_pattern)), LAMBDA pattern_bytes :
    Local(fromhex(RemoveBlanks(hex_value)), LAMBDA value_bytes :
        IF ValueError \in {pattern_bytes, value_bytes}
        THEN Replaced(content, FALSE, "ValueError")
        ELSE IF ~Occurs(pattern_bytes, content)
        THEN Replaced(content, FALSE, "not_found")
        ELSE Replaced(replace(content, pattern_bytes, value_bytes),
                      TRUE, "replaced")))

\* ------------------------------------------- configurer.py, ASCII notation
\* ord(c) of the characters the patterns and values here are written in.
ord ==
    ("a" :> 97) @@ ("b" :> 98) @@ ("x" :> 120) @@ ("?" :> 63) @@ (" " :> 32)
    @@ ("0" :> 48) @@ ("1" :> 49) @@ ("2" :> 50) @@ ("3" :> 51) @@ ("4" :> 52)
    @@ ("5" :> 53) @@ ("6" :> 54) @@ ("7" :> 55) @@ ("8" :> 56) @@ ("9" :> 57)
    @@ ("c" :> 99) @@ ("d" :> 100) @@ ("e" :> 101) @@ ("f" :> 102)
    @@ ("n" :> 110) @@ ("+" :> 43) @@ ("\\" :> 92)

Digits == <<"0", "1", "2", "3", "4", "5", "6", "7", "8", "9">>

\* c.isdigit()
isdigit(ch) == \E i \in 1..10 : Digits[i] = ch

\* int(num_str) of a run of digits.
RECURSIVE int(_)
int(num_str) ==
    IF Len(num_str) = 0 THEN 0
    ELSE 10 * int(SubSeq(num_str, 1, Len(num_str) - 1))
            + (CHOOSE d \in 0..9 : Digits[d + 1] = num_str[Len(num_str)])

\* The length of the run of digits value starts with.
RECURSIVE DigitRun(_)
DigitRun(value) ==
    IF Len(value) > 0 /\ isdigit(value[1]) THEN 1 + DigitRun(Tail(value)) ELSE 0

RECURSIVE convert_decimal_to_hex_in_value(_)
convert_decimal_to_hex_in_value(value) ==
    IF Len(value) = 0 THEN <<>>
    ELSE IF isdigit(value[1])
    THEN LET num_str == SubSeq(value, 1, DigitRun(value))
             decimal_val == int(num_str)
         IN (IF decimal_val <= 255 THEN Hex02(decimal_val) ELSE num_str)
                \o convert_decimal_to_hex_in_value(
                        SubSeq(value, DigitRun(value) + 1, Len(value)))
    ELSE <<value[1]>> \o convert_decimal_to_hex_in_value(Tail(value))

\* ' '.join(hex_parts)
RECURSIVE join(_)
join(hex_parts) ==
    IF Len(hex_parts) = 0 THEN <<>>
    ELSE IF Len(hex_parts) = 1 THEN hex_parts[1]
    ELSE hex_parts[1] \o <<" ">> \o join(Tail(hex_parts))

ascii_to_hex_pattern(ascii_pattern) ==
    join([i \in 1..Len(ascii_pattern) |->
            IF ascii_pattern[i] = "?" THEN <<"?", "?">>
            ELSE Hex02(ord[ascii_pattern[i]])])

\* The second loop of ascii_to_hex_value: two hex digits in a row are taken
\* for a byte already written in hex, any other character for itself.
RECURSIVE HexParts(_)
HexParts(processed_value) ==
    IF Len(processed_value) = 0 THEN <<>>
    ELSE IF /\ Len(processed_value) >= 2
            /\ IsHexDigit(processed_value[1]) /\ IsHexDigit(processed_value[2])
    THEN <<SubSeq(processed_value, 1, 2)>>
            \o HexParts(SubSeq(processed_value, 3, Len(processed_value)))
    ELSE <<Hex02(ord[processed_value[1]])>> \o HexParts(Tail(processed_value))

ascii_to_hex_value(ascii_value) ==
    join(HexParts(convert_decimal_to_hex_in_value(ascii_value)))

\* ------------------------------------------- configurer.py, text replacement
\* A text is the sequence of the code points of its characters.
LF == 10
CR == 13
Backslash == 92

\* file.read() of a file opened with 'r': the bytes of an ASCII file are the
\* code points of its characters, and every '\r\n' or '\r' is read as '\n'.
RECURSIVE read_text(_)
read_text(bytes) ==
    IF Len(bytes) = 0 THEN <<>>
    ELSE IF bytes[1] = CR
    THEN <<LF>> \o read_text(IF Len(bytes) >= 2 /\ bytes[2] = LF
                             THEN SubSeq(bytes, 3, Len(bytes))
                             ELSE Tail(bytes))
    ELSE <<bytes[1]>> \o read_text(Tail(bytes))

\* file.write(content) of a file opened with 'w' where os.linesep is '\n'.
write_text(content) == content

\* The re.error that re.search and re.sub raise.
ReError == <<0 - 1>>

\* One item of a pattern: a character or \d, once or (followed by +) one or
\* more times.
Atom(kind, code, plus) == [kind |-> kind, code |-> code, plus |-> plus]

\* The re.error of a pattern, where its atoms were expected.
BadPattern == <<Atom("error", 0, FALSE)>>

\* re.compile of the patterns written with ordinary characters, \d, \\ and
\* the postfix +.
RECURSIVE compile(_)
compile(pattern) ==
    IF Len(pattern) = 0 THEN <<>>
    ELSE IF pattern[1] = "+" THEN BadPattern
    ELSE IF pattern[1] = "\\" /\ Len(pattern) = 1 THEN BadPattern
    ELSE
    LET escaped == pattern[1] = "\\"
        width == IF escaped THEN 2 ELSE 1
        plus == Len(pattern) > width /\ pattern[width + 1] = "+"
        atom == IF escaped /\ pattern[2] = "d" THEN Atom("digit", 0, plus)
                ELSE Atom("char", ord[pattern[width]], plus)
    IN Local(compile(SubSeq(pattern, width + (IF plus THEN 2 ELSE 1),
                            Len(pattern))),
         LAMBDA rest : IF rest = BadPattern THEN BadPattern ELSE <<atom>> \o rest)

Fits(atom, code) ==
    IF atom.kind = "digit" THEN code \in 48..57 ELSE code = atom.code

\* The number of characters from content[pos] on that fit the atom.
RECURSIVE FitRun(_, _, _)
FitRun(atom, content, pos) ==
    IF pos < Len(content) /\ Fits(atom, content[pos + 1])
    THEN 1 + FitRun(atom, content, pos + 1)
    ELSE 0

\* Where the match of atoms[k..] that starts at pos ends, -1 if there is
\* none: a repeated atom takes as many characters as the rest allows.
RECURSIVE MatchEnd(_, _, _, _)
MatchEnd(atoms, k, content, pos) ==
    IF k > Len(atoms) THEN pos
    ELSE Local(FitRun(atoms[k], content, pos), LAMBDA fit :
         Local({n \in 1..(IF atoms[k].plus \/ fit = 0 THEN fit ELSE 1) :
                    MatchEnd(atoms, k + 1, content, pos + n) # 0 - 1},
           LAMBDA takes :
            IF takes = {} THEN 0 - 1
            ELSE MatchEnd(atoms, k + 1, content,
                          pos + (CHOOSE n \in takes : \A m \in takes : m <= n))))

\* re.search(pattern, content)
search(atoms, content) ==
    \E pos \in 0..Len(content) : MatchEnd(atoms, 1, content, pos) # 0 - 1

\* The replacement template of re.sub: \n is a newline, \\ a backslash, \1
\* to \9 a group of the pattern (there is none here), and a backslash at the
\* end is no escape.
RECURSIVE expand(_)
expand(value) ==
    IF Len(value) = 0 THEN <<>>
    ELSE IF value[1] # "\\"
    THEN Local(expand(Tail(value)), LAMBDA rest :
            IF rest = ReError THEN ReError ELSE <<ord[value[1]]>> \o rest)
    ELSE IF Len(value) = 1 THEN ReError
    ELSE IF isdigit(value[2]) /\ value[2] # "0" THEN ReError
    ELSE Local(expand(SubSeq(value, 3, Len(value))), LAMBDA rest :
            IF rest = ReError THEN ReError
            ELSE IF value[2] = "n" THEN <<LF>> \o rest
            ELSE IF value[2] = "\\" THEN <<Backslash>> \o rest
            ELSE <<Backslash, ord[value[2]]>> \o rest)

\* re.sub from position pos on: every non-overlapping match, leftmost
\* first, is replaced; an empty match is followed by the next character.
RECURSIVE sub_from(_, _, _, _)
sub_from(atoms, repl, content, pos) ==
    Local(MatchEnd(atoms, 1, content, pos), LAMBDA end :
        IF pos >= Len(content) THEN (IF end = pos THEN repl ELSE <<>>)
        ELSE IF end = 0 - 1
        THEN <<content[pos + 1]>> \o sub_from(atoms, repl, content, pos + 1)
        ELSE IF end = pos
        THEN repl \o <<content[pos + 1]>>
                \o sub_from(atoms, repl, content, pos + 1)
        ELSE repl \o sub_from(atoms, repl, content, end))

\* re.sub(pattern, value, content) once re.search has found a match.
sub(atoms, value, content) ==
    Local(expand(value), LAMBDA repl :
        IF repl = ReError THEN ReError ELSE sub_from(atoms, repl, content, 0))

\* --------------------------------------------- configurer.py, one file
\* os.path.exists(file_path) is false.
NoFile == <<0 - 2>>

\* A replacement entry: pattern and value ('hex_pattern' and 'hex_value' in
\* an entry of 'hex_replacements').
Rep(pattern, value) == [pattern |-> pattern, value |-> value]

\* What a call left: the file, whether it was written, whether an exception
\* left the call, and the outcome of every entry.
Done(file, wrote, raised, outcomes) ==
    [file |-> file, wrote |-> wrote, raised |-> raised, outcomes |-> outcomes]

\* if '??' in hex_pattern: ... else: ...
apply_hex_replacement(content, hex_pattern, hex_value) ==
    IF HasWildcard(hex_pattern)
    THEN apply_wildcard_replacement(content, hex_pattern, hex_value)
    ELSE apply_exact_replacement(content, hex_pattern, hex_value)

\* Mutant of hex_replacements_loop: the try is around the loop, a ValueError
\* ends it.
RECURSIVE hex_replacements_loop_try_outside(_, _)
hex_replacements_loop_try_outside(content, hex_replacements) ==
    IF Len(hex_replacements) = 0
    THEN [content |-> content, modified |-> FALSE, outcomes |-> <<>>]
    ELSE Local(apply_hex_replacement(content, hex_replacements[1].pattern,
                                     hex_replacements[1].value),
           LAMBDA one :
         IF one.outcome = "ValueError"
         THEN [content |-> content, modified |-> FALSE,
               outcomes |-> <<one.outcome>>]
         ELSE
         Local(hex_replacements_loop_try_outside(one.content,
                                                 Tail(hex_replacements)),
           LAMBDA rest :
            [content |-> rest.content,
             modified |-> one.changed \/ rest.modified,
             outcomes |-> <<one.outcome>> \o rest.outcomes]))

\* The loop of modify_hex_file: a ValueError is caught and its entry left.
RECURSIVE hex_replacements_loop(_, _)
hex_replacements_loop(content, hex_replacements) ==
    IF Len(hex_replacements) = 0
    THEN [content |-> content, modified |-> FALSE, outcomes |-> <<>>]
    ELSE Local(apply_hex_replacement(content, hex_replacements[1].pattern,
                                     hex_replacements[1].value),
           LAMBDA one :
         Local(hex_replacements_loop(one.content, Tail(hex_replacements)),
           LAMBDA rest :
            [content |-> rest.content,
             modified |-> one.changed \/ rest.modified,
             outcomes |-> <<one.outcome>> \o rest.outcomes]))

modify_hex_file(file, hex_replacements) ==
    IF file = NoFile \/ Len(hex_replacements) = 0
    THEN Done(file, FALSE, FALSE, <<>>)
    ELSE Local(hex_replacements_loop(file, hex_replacements), LAMBDA loop :
            Done(IF loop.modified THEN loop.content ELSE file,
                 loop.modified, FALSE, loop.outcomes))

modify_hex_file_with_ascii(file, replacements) ==
    IF file = NoFile \/ Len(replacements) = 0
    THEN Done(file, FALSE, FALSE, <<>>)
    ELSE Local(hex_replacements_loop(file,
                    [i \in 1..Len(replacements) |->
                        Rep(ascii_to_hex_pattern(replacements[i].pattern),
                            ascii_to_hex_value(replacements[i].value))]),
           LAMBDA loop :
            Done(IF loop.modified THEN loop.content ELSE file,
                 loop.modified, FALSE, loop.outcomes))

\* The loop of modify_file: a re.error is caught nowhere.
RECURSIVE replacements_loop(_, _)
replacements_loop(content, replacements) ==
    IF Len(replacements) = 0
    THEN [content |-> content, modified |-> FALSE, raised |-> FALSE,
          outcomes |-> <<>>]
    ELSE
    Local(compile(replacements[1].pattern), LAMBDA atoms :
    Local(atoms # BadPattern /\ search(atoms, content), LAMBDA found :
    Local(IF found THEN sub(atoms, replacements[1].value, content) ELSE content,
      LAMBDA new_content :
        IF atoms = BadPattern \/ new_content = ReError
        THEN [content |-> content, modified |-> FALSE, raised |-> TRUE,
              outcomes |-> <<"re.error">>]
        ELSE Local(replacements_loop(new_content, Tail(replacements)),
               LAMBDA rest :
                [content |-> rest.content,
                 modified |-> found \/ rest.modified,
                 raised |-> rest.raised,
                 outcomes |-> <<IF found THEN "replaced" ELSE "no_match">>
                                 \o rest.outcomes]))))

modify_file(file, replacements) ==
    IF file = NoFile \/ Len(replacements) = 0
    THEN Done(file, FALSE, FALSE, <<>>)
    ELSE Local(replacements_loop(read_text(file), replacements), LAMBDA loop :
            IF loop.raised THEN Done(file, FALSE, TRUE, loop.outcomes)
            ELSE Done(IF loop.modified THEN write_text(loop.content) ELSE file,
                      loop.modified, FALSE, loop.outcomes))

\* ---------------------------------------------- the configurer at rest
NoModify ==
    [fn |-> "none", replacements |-> <<>>, before |-> NoFile, after |-> NoFile,
     wrote |-> FALSE, raised |-> FALSE, outcomes |-> <<>>]

\* The patcher phase: configurer.run() has not begun.
ConfigurerOff ==
    /\ config_file = NoFile
    /\ configuring = "off"
    /\ steps = 0
    /\ writes = 0
    /\ call = NoModify

\* ------------------------------------------------- saver.py, strategy sync
\* A save directory holds the game's save file and, once synced, the sync
\* metadata file; _build_file_map lists both.  A file is its modification
\* time and its data; the data of the metadata file is the number it
\* records as last_snapshot_mtime.  A directory that does not exist reads as
\* one without files, and is made by the sync that writes to it.
SYNC_META_NAME == ".gamer-sidekick"
Rels == {"save", SYNC_META_NAME}
NoSave == [mtime |-> 0, data |-> 0 - 1]
File(mtime, data) == [mtime |-> mtime, data |-> data]
NoDir == [rel \in Rels |-> NoSave]

_build_file_map(root) == {rel \in Rels : root[rel] # NoSave}

\* max(os.path.getmtime(p) for p in files.values()), 0.0 without files.
_max_mtime(root, files) ==
    IF files = {} THEN 0
    ELSE CHOOSE t \in {root[rel].mtime : rel \in files} :
            \A rel \in files : root[rel].mtime <= t

\* float(data.get("last_snapshot_mtime")), None without the file.
None == 0 - 1
_read_sync_meta(root) ==
    IF root[SYNC_META_NAME] = NoSave THEN None ELSE root[SYNC_META_NAME].data

\* json.dump of the snapshot into the metadata file, at time clock.
_write_sync_meta(root, snapshot_mtime, clock) ==
    [root EXCEPT ![SYNC_META_NAME] = File(clock, snapshot_mtime)]

\* os.stat(path).st_size: the data of a save file two by two, the length
\* of the JSON text of a metadata file.
st_size(rel, file) ==
    IF rel = SYNC_META_NAME
    THEN Len(<<"{", "last_snapshot_mtime", ":", " ">>)
           + (IF file.data < 10 THEN 1 ELSE 2) + Len(<<".", "0", "}">>)
    ELSE file.data \div 2

\* _copy_file(src, dst) copies unless dst is there with the size of src and
\* is not older; shutil.copy2 keeps the modification time.
Copies(rel, source_root, target_root) ==
    ~ (/\ target_root[rel] # NoSave
       /\ st_size(rel, source_root[rel]) = st_size(rel, target_root[rel])
       /\ source_root[rel].mtime <= target_root[rel].mtime)

\* The two loops of the sync: copy or update the files of the source, then
\* remove from the target the files the source does not have.
mirror(source_root, target_root) ==
    [rel \in Rels |->
        IF source_root[rel] = NoSave THEN NoSave
        ELSE IF Copies(rel, source_root, target_root) THEN source_root[rel]
        ELSE target_root[rel]]

Copied(source_root, target_root) ==
    {rel \in _build_file_map(source_root) : Copies(rel, source_root, target_root)}

Removed(source_root, target_root) ==
    _build_file_map(target_root) \ _build_file_map(source_root)

Synced(src, dst, detected, direction, copied, removed, completed) ==
    [src |-> src, dst |-> dst, detected |-> detected, direction |-> direction,
     copied |-> copied, removed |-> removed, completed |-> completed,
     after_quiet |-> FALSE]

Skipped(src, dst, detected) == Synced(src, dst, detected, "none", {}, {}, FALSE)

\* What the metadata say of the two sides.
changes(src_changed, dst_changed) ==
    IF src_changed /\ dst_changed THEN "both"
    ELSE IF src_changed THEN "src"
    ELSE IF dst_changed THEN "dst"
    ELSE "no_changes"

\* _sync_one_manifest with strategy sync, run at time clock on the two
\* directories: what it leaves of them, and what it saw and did.
_sync_one_manifest(src, dst, clock) ==
    LET src_current == _max_mtime(src, _build_file_map(src))
        dst_current == _max_mtime(dst, _build_file_map(dst))
        src_meta == _read_sync_meta(src)
        dst_meta == _read_sync_meta(dst)
        use_meta == src_meta # None /\ dst_meta # None
        detected == IF use_meta
                    THEN changes(src_current > src_meta, dst_current > dst_meta)
                    ELSE "no_metadata"
        direction == IF use_meta
                     THEN IF detected = "dst" THEN "dst_to_src" ELSE "src_to_dst"
                     ELSE IF dst_current > src_current THEN "dst_to_src"
                     ELSE "src_to_dst"
        source_root == IF direction = "src_to_dst" THEN src ELSE dst
        target_root == IF direction = "src_to_dst" THEN dst ELSE src
        mirrored == mirror(source_root, target_root)
        new_src == IF direction = "src_to_dst" THEN src ELSE mirrored
        new_dst == IF direction = "src_to_dst" THEN mirrored ELSE dst
        src_snapshot == _max_mtime(new_src, _build_file_map(new_src))
        dst_snapshot == _max_mtime(new_dst, _build_file_map(new_dst))
    IN
    IF src_current = 0 /\ dst_current = 0 THEN Skipped(src, dst, "empty")
    ELSE IF detected = "no_changes" THEN Skipped(src, dst, detected)
    ELSE Synced(_write_sync_meta(new_src, src_snapshot, clock),
                _write_sync_meta(new_dst, dst_snapshot, clock),
                detected, direction,
                Copied(source_root, target_root),
                Removed(source_root, target_root), TRUE)

NoSync == Skipped(NoDir, NoDir, "none")

\* saver.run() is over, or has nothing to do.
SaverOff ==
    /\ src_dir = NoDir
    /\ dst_dir = NoDir
    /\ now = 1
    /\ synced = NoSync
    /\ quiet = FALSE

\* ------------------------------------------------------------------- Init
NoPatch == PatchInfo("gone", "other", NoCrc, NoCrc)

NoCall ==
    [patch_info |-> NoPatch, root |-> 0, outcome |-> "none",
     invoked |-> FALSE, rc |-> 0,
     target |-> [r \in Roots |-> Absent], backup |-> [r \in Roots |-> Absent]]

\* The tool has not been called: no <target>.patched seen, nothing returned.
NoAttempt == [root |-> 0, found |-> Absent, tool |-> Unknown, left |-> Absent]

NoPatched ==
    /\ patched_file = [r \in Roots |-> Absent]
    /\ attempt = NoAttempt

\* The game directories: one release of the game, installed under any
\* number of the roots.
Installs ==
    {[r \in Roots |-> IF r \in holders THEN c ELSE Absent] :
        holders \in SUBSET Roots, c \in Content}

\* A fresh target tree: no backup yet, the tool never run.
Fresh ==
    /\ target \in Installs
    /\ backup = [r \in Roots |-> Absent]
    /\ source \in Content
    /\ flips = [t \in Content |-> Unknown]
    /\ walking = FALSE
    /\ idx = 0
    /\ run = 0
    /\ ended = [n \in 1..MaxRuns |-> "none"]
    /\ log = [n \in 1..MaxRuns |-> [i \in 1..MaxPatches |-> "none"]]
    /\ snap = [n \in 1..MaxRuns |-> <<>>]
    /\ last = NoCall
    /\ pristine = target
    /\ NoPatched
    /\ ConfigurerOff
    /\ SaverOff

Init == Fresh /\ patches = <<>>

\* ---------------------------------------------------------------- actions
Tree == [target |-> target, backup |-> backup]

\* run() with the tool found, up to its loop over the catalog.
RunStart ==
    /\ UNCHANGED <<patched_vars, configurer_vars, saver_vars>>
    /\ ~walking
    /\ walking' = TRUE
    /\ last' = NoCall
    /\ UNCHANGED <<target, backup, source, patches, flips, idx, run, ended, log,
                   snap, pristine>>

\* process_single_patch(patch_info) on the file system.  An exception it
\* raises is caught nowhere, neither in run() nor in main(): the run ends
\* there.
Process(patch_info) ==
    /\ UNCHANGED <<patched_vars, configurer_vars, saver_vars>>
    /\ walking
    /\ \E r \in {first_root(target)} :
       \E tool \in ToolResults :
       \E res \in {process_single_patch(patch_info, SourceContent(patch_info.file),
                                        target, backup, tool)} :
            /\ r # 0 => flips[target[r]] \in {Unknown, tool}
            /\ ~res.effect.invoked => tool = ToolFail
            /\ target' = IF res.root = 0 THEN target
                         ELSE [target EXCEPT ![res.root] = res.effect.target]
            /\ backup' = IF res.root = 0 THEN backup
                         ELSE [backup EXCEPT ![res.root] = res.effect.backup]
            /\ flips' = IF res.effect.invoked
                        THEN [flips EXCEPT ![target[r]] = tool]
                        ELSE flips
            /\ last' = [patch_info |-> patch_info, root |-> res.root,
                        outcome |-> res.effect.outcome,
                        invoked |-> res.effect.invoked,
                        rc |-> IF res.effect.invoked /\ tool = ToolFail THEN 1 ELSE 0,
                        target |-> target, backup |-> backup]
            /\ walking' = (res.effect.outcome # "raised")
    /\ UNCHANGED <<source, patches, pristine>>

\* One iteration of the loop, on whatever entry patch.json holds there.
ProcessPatch(patch_info) ==
    /\ Process(patch_info)
    /\ UNCHANGED <<idx, run, ended, log, snap>>

\* The loop is over: run() returns.
RunEnd ==
    /\ UNCHANGED <<patched_vars, configurer_vars, saver_vars>>
    /\ walking
    /\ walking' = FALSE
    /\ UNCHANGED <<target, backup, source, patches, flips, idx, run, ended,
                   log, snap, last, pristine>>

\* Any catalogs, any number of runs.
Next ==
    \/ RunStart
    \/ \E patch_info \in PatchInfos : ProcessPatch(patch_info)
    \/ RunEnd

Spec == Init /\ [][Next]_vars

\* ------------------------------------------- the same catalog, run after run
Catalogs == UNION {[1..n -> PatchInfos] : n \in 1..MaxPatches}

CatalogInit == Fresh /\ patches \in Catalogs

\* run() when check_flips_availability() finds no tool: "skipping patcher
\* phase", the catalog is not read.
CatalogRunWithoutFlips ==
    /\ UNCHANGED <<patched_vars, configurer_vars, saver_vars>>
    /\ ~walking
    /\ run < MaxRuns
    /\ run' = run + 1
    /\ ended' = [ended EXCEPT ![run + 1] = "no_flips"]
    /\ snap' = [snap EXCEPT ![run + 1] = Tree]
    /\ UNCHANGED <<target, backup, source, patches, flips, walking, idx, log,
                   last, pristine>>

CatalogRunStart ==
    /\ UNCHANGED <<patched_vars, configurer_vars, saver_vars>>
    /\ ~walking
    /\ run < MaxRuns
    /\ run' = run + 1
    /\ walking' = TRUE
    /\ idx' = 1
    /\ last' = NoCall
    /\ UNCHANGED <<target, backup, source, patches, flips, ended, log, snap,
                   pristine>>

CatalogProcessPatch ==
    /\ idx <= Len(patches)
    /\ Process(patches[idx])
    /\ log' = [log EXCEPT ![run][idx] = last'.outcome]
    /\ IF last'.outcome = "raised"
       THEN /\ ended' = [ended EXCEPT ![run] = "raised"]
            /\ snap' = [snap EXCEPT ![run] = [target |-> target', backup |-> backup']]
            /\ idx' = idx
       ELSE /\ idx' = idx + 1
            /\ UNCHANGED <<ended, snap>>
    /\ UNCHANGED run

CatalogRunEnd ==
    /\ UNCHANGED <<patched_vars, configurer_vars, saver_vars>>
    /\ walking
    /\ idx > Len(patches)
    /\ walking' = FALSE
    /\ ended' = [ended EXCEPT ![run] = "returned"]
    /\ snap' = [snap EXCEPT ![run] = Tree]
    /\ UNCHANGED <<target, backup, source, patches, flips, idx, run, log, last,
                   pristine>>

CatalogNext ==
    \/ CatalogRunWithoutFlips
    \/ CatalogRunStart
    \/ CatalogProcessPatch
    \/ CatalogRunEnd

SpecCatalog == CatalogInit /\ [][CatalogNext]_vars

\* ------------------------------------- the patcher and <target>.patched
\* Entries of method patch, with and without a CRC32 to pass the gates on.
PatchedInfos ==
    {PatchInfo("a", "patch", t, p) : t \in {NoCrc, Hex8(0)}, p \in {NoCrc, Hex8(1)}}

\* What a tool that fails, or is killed, can leave of the file it was to
\* write: the file that was there, no file, or any bytes.
Leftovers(tmp) == {tmp, Absent} \cup Content

PatchedInit == Init

\* process_single_patch(patch_info), the file <target>.patched followed.
PatchedProcessPatch(patch_info) ==
    /\ walking
    /\ \E r \in {first_root(target)} :
       \E tool \in ToolResults :
       \E res \in {process_single_patch(patch_info, SourceContent(patch_info.file),
                                        target, backup, tool)} :
            /\ r # 0 => flips[target[r]] \in {Unknown, tool}
            /\ ~res.effect.invoked => tool = ToolFail
            /\ IF res.effect.invoked
               THEN \E left \in Leftovers(patched_file[r]) :
                    \E files \in {patch_file_to_patched(patch_info, target[r],
                                       backup[r], patched_file[r], tool, left)} :
                       /\ target' = [target EXCEPT ![r] = files.target]
                       /\ backup' = [backup EXCEPT ![r] = files.backup]
                       /\ patched_file' = [patched_file EXCEPT ![r] = files.patched]
                       /\ attempt' = [root |-> r, found |-> patched_file[r],
                                      tool |-> tool, left |-> left]
                       /\ flips' = [flips EXCEPT ![target[r]] = tool]
                       /\ last' = [patch_info |-> patch_info, root |-> r,
                                   outcome |-> files.outcome, invoked |-> TRUE,
                                   rc |-> subprocess_run(tool, left).returncode,
                                   target |-> target, backup |-> backup]
               ELSE /\ target' = IF res.root = 0 THEN target
                                 ELSE [target EXCEPT ![res.root] = res.effect.target]
                    /\ backup' = IF res.root = 0 THEN backup
                                 ELSE [backup EXCEPT ![res.root] = res.effect.backup]
                    /\ last' = [patch_info |-> patch_info, root |-> res.root,
                                outcome |-> res.effect.outcome, invoked |-> FALSE,
                                rc |-> 0, target |-> target, backup |-> backup]
                    /\ UNCHANGED <<flips, patched_vars>>
            /\ walking' = (last'.outcome # "raised")
    /\ UNCHANGED <<source, patches, pristine, idx, run, ended, log, snap,
                   configurer_vars, saver_vars>>

\* The process is ended (a signal, a power cut) while the tool runs: the
\* gates have been passed and the backup taken, the target is as it was and
\* <target>.patched holds whatever had been written of it.
KilledInTool(patch_info) ==
    /\ walking
    /\ patch_info.method = "patch"
    /\ \E r \in {first_root(target)} :
       \E res \in {process_single_patch(patch_info, SourceContent(patch_info.file),
                                        target, backup, ToolFail)} :
            /\ res.effect.invoked
            /\ \E left \in Leftovers(patched_file[r]) :
                  /\ patched_file' = [patched_file EXCEPT ![r] = left]
                  /\ attempt' = [root |-> r, found |-> patched_file[r],
                                 tool |-> Unknown, left |-> left]
            /\ backup' = [backup EXCEPT ![r] = res.effect.backup]
            /\ last' = [patch_info |-> patch_info, root |-> r,
                        outcome |-> "killed", invoked |-> TRUE, rc |-> 0,
                        target |-> target, backup |-> backup]
    /\ walking' = FALSE
    /\ UNCHANGED <<target, source, patches, flips, idx, run, ended, log, snap,
                   pristine, configurer_vars, saver_vars>>

PatchedNext ==
    \/ RunStart
    \/ \E patch_info \in PatchedInfos : PatchedProcessPatch(patch_info)
    \/ \E patch_info \in PatchedInfos : KilledInTool(patch_info)
    \/ RunEnd

SpecPatched == PatchedInit /\ [][PatchedNext]_vars

\* ------------------------------------------------- configurer.run(), a file
\* The files: up to MaxLen bytes of the characters a, b and 3, a file with a
\* line ending of two bytes, and a path that does not exist.
FileBytes == {97, 98, 51}
ConfigFiles ==
    UNION {[1..n -> FileBytes] : n \in 0..MaxLen} \cup {<<97, CR, LF>>, NoFile}

\* Entries of 'hex_replacements', in hex notation.
HexReps ==
    {Rep(join(<<<<"6", "1">>, <<"?", "?">>, <<"6", "2">>>>),
         join(<<<<"6", "1">>, <<"3", "3">>, <<"6", "2">>>>)),
     Rep(join(<<<<"6", "1">>, <<"?", "?">>, <<"6", "2">>>>), <<"3", "3">>),
     Rep(join(<<<<"6", "1">>, <<"?", "?">>>>),
         join(<<<<"6", "1">>, <<"3", "3">>, <<"3", "3">>>>)),
     Rep(join(<<<<"6", "1">>, <<"?", "?">>, <<"?", "?">>, <<"6", "2">>>>),
         join(<<<<"6", "1">>, <<"3", "3">>, <<"3", "3">>, <<"6", "2">>>>)),
     Rep(<<"6", "1">>, <<"6", "2">>),
     Rep(<<"z", "z">>, <<"6", "2">>)}

HexRepLists == UNION {[1..n -> HexReps] : n \in 1..MaxReps}

\* Entries of 'replacements' of type hexadecimal, in ASCII notation.
AsciiReps ==
    {Rep(<<"a", "?", "b">>, <<"a", "3", "b">>),
     Rep(<<"a", "?">>, <<"x", "3">>),
     Rep(<<"?", "?">>, <<"x", "3">>),
     Rep(<<"a">>, <<"b">>),
     Rep(<<"b">>, <<"3">>),
     Rep(<<"a">>, <<"a", "3">>),
     Rep(<<"a">>, <<"2", "5", "5">>),
     Rep(<<"a">>, <<"2", "5", "6">>)}

\* Entries of 'replacements' of type text.
TextReps ==
    {Rep(<<"a">>, <<"b">>),
     Rep(<<"a">>, <<"a">>),
     Rep(<<"a", "\\", "d", "+">>, <<"a", "3">>),
     Rep(<<"a">>, <<"\\", "n">>),
     Rep(<<"a">>, <<"\\", "1">>),
     Rep(<<>>, <<"b">>),
     Rep(<<"+">>, <<"b">>)}

\* A file a text-mode read decodes whatever the locale.
IsAscii(file) == \A i \in 1..Len(file) : file[i] < 128

PatcherOff ==
    /\ target = [r \in Roots |-> Absent]
    /\ backup = [r \in Roots |-> Absent]
    /\ source = Absent
    /\ patches = <<>>
    /\ flips = [t \in Content |-> Unknown]
    /\ walking = FALSE
    /\ idx = 0
    /\ run = 0
    /\ ended = [n \in 1..MaxRuns |-> "none"]
    /\ log = [n \in 1..MaxRuns |-> [i \in 1..MaxPatches |-> "none"]]
    /\ snap = [n \in 1..MaxRuns |-> <<>>]
    /\ last = NoCall
    /\ pristine = target
    /\ NoPatched

\* run() is at one path of one entry of 'files', before its replacements.
ConfigurerInit ==
    /\ PatcherOff
    /\ SaverOff
    /\ config_file \in ConfigFiles
    /\ configuring = "running"
    /\ steps = 0
    /\ writes = 0
    /\ call = NoModify

\* The call fn(p, replacements) of run().
Modify(fn, replacements) ==
    IF fn = "modify_file" THEN modify_file(config_file, replacements)
    ELSE IF fn = "modify_hex_file_with_ascii"
    THEN modify_hex_file_with_ascii(config_file, replacements)
    ELSE modify_hex_file(config_file, replacements)

\* The call has returned or raised; an exception is caught nowhere, neither
\* in run() nor in main().
Modified(fn, replacements, then) ==
    \E done \in {Modify(fn, replacements)} :
        /\ config_file' = done.file
        /\ writes' = writes + (IF done.wrote THEN 1 ELSE 0)
        /\ call' = [fn |-> fn, replacements |-> replacements,
                    before |-> config_file, after |-> done.file,
                    wrote |-> done.wrote, raised |-> done.raised,
                    outcomes |-> done.outcomes]
        /\ configuring' = IF done.raised THEN "raised" ELSE then
        /\ UNCHANGED <<patcher_vars, patched_vars, saver_vars>>

\* An entry of 'replacements' of type text: modify_file(p, [replacement]).
ModifyFile(replacement) ==
    /\ configuring = "running"
    /\ steps < MaxReps
    /\ IsAscii(config_file)
    /\ steps' = steps + 1
    /\ Modified("modify_file", <<replacement>>, "running")

\* An entry of 'replacements' of type hexadecimal:
\* modify_hex_file_with_ascii(p, [replacement]).
ModifyHexFileWithAscii(replacement) ==
    /\ configuring = "running"
    /\ steps < MaxReps
    /\ steps' = steps + 1
    /\ Modified("modify_hex_file_with_ascii", <<replacement>>, "running")

\* modify_hex_file(p, file_config['hex_replacements']), the last call of
\* run() for the path, here of an entry of 'files' without 'replacements'.
ModifyHexFile(hex_replacements) ==
    /\ configuring = "running"
    /\ steps = 0
    /\ UNCHANGED steps
    /\ Modified("modify_hex_file", hex_replacements, "returned")

\* The entry of 'files' has no 'hex_replacements'.
ConfigurerReturn ==
    /\ configuring = "running"
    /\ configuring' = "returned"
    /\ UNCHANGED <<patcher_vars, patched_vars, saver_vars, config_file, steps,
                   writes, call>>

\* The process is ended (a signal, a power cut) inside the last statement
\* of a modify function, "with open(file_path, 'w') as file:
\* file.write(content)": open() has emptied the file, and of the new
\* content any number of bytes short of all has reached it.
KilledInWrite(fn, replacements) ==
    /\ configuring = "running"
    /\ fn = "modify_file" => IsAscii(config_file)
    /\ steps < MaxReps
    /\ fn = "modify_hex_file" => steps = 0
    /\ \E done \in {Modify(fn, replacements)} :
          /\ done.wrote
          /\ \E n \in 0..(Len(done.file) - 1) :
                config_file' = SubSeq(done.file, 1, n)
          /\ call' = [fn |-> fn, replacements |-> replacements,
                      before |-> config_file, after |-> done.file,
                      wrote |-> FALSE, raised |-> FALSE,
                      outcomes |-> done.outcomes]
    /\ configuring' = "killed"
    /\ UNCHANGED <<patcher_vars, patched_vars, saver_vars, steps, writes>>

ConfigurerNext ==
    \/ \E replacement \in TextReps : ModifyFile(replacement)
    \/ \E replacement \in AsciiReps : ModifyHexFileWithAscii(replacement)
    \/ \E hex_replacements \in HexRepLists : ModifyHexFile(hex_replacements)
    \/ ConfigurerReturn
    \/ \E replacement \in TextReps :
          KilledInWrite("modify_file", <<replacement>>)
    \/ \E replacement \in AsciiReps :
          KilledInWrite("modify_hex_file_with_ascii", <<replacement>>)
    \/ \E hex_replacements \in HexRepLists :
          KilledInWrite("modify_hex_file", hex_replacements)

SpecConfigurer == ConfigurerInit /\ [][ConfigurerNext]_vars

\* ------------------------------------------- saver.run(), strategy sync
\* A save file as the game, or the user, writes it.
SaveData == 0..MaxContent
Sides == {"src", "dst"}

\* One game: a save directory with or without a save file on each side,
\* never synced.
SaverInit ==
    /\ PatcherOff
    /\ ConfigurerOff
    /\ src_dir \in {NoDir} \cup
          {[NoDir EXCEPT !["save"] = File(1, data)] : data \in SaveData}
    /\ dst_dir \in {NoDir} \cup
          {[NoDir EXCEPT !["save"] = File(1, data)] : data \in SaveData}
    /\ now = 1
    /\ synced = NoSync
    /\ quiet = FALSE

\* Time passes.
Tick ==
    /\ now < MaxTime
    /\ now' = now + 1
    /\ UNCHANGED <<patcher_vars, patched_vars, configurer_vars, src_dir,
                   dst_dir, synced, quiet>>

\* The save file of a side is written, outside the program.
WriteSave(side, data) ==
    /\ IF side = "src"
       THEN /\ src_dir' = [src_dir EXCEPT !["save"] = File(now, data)]
            /\ UNCHANGED dst_dir
       ELSE /\ dst_dir' = [dst_dir EXCEPT !["save"] = File(now, data)]
            /\ UNCHANGED src_dir
    /\ quiet' = FALSE
    /\ UNCHANGED <<patcher_vars, patched_vars, configurer_vars, now, synced>>

\* The save file of a side is removed, outside the program.
RemoveSave(side) ==
    /\ IF side = "src"
       THEN /\ src_dir["save"] # NoSave
            /\ src_dir' = [src_dir EXCEPT !["save"] = NoSave]
            /\ UNCHANGED dst_dir
       ELSE /\ dst_dir["save"] # NoSave
            /\ dst_dir' = [dst_dir EXCEPT !["save"] = NoSave]
            /\ UNCHANGED src_dir
    /\ quiet' = FALSE
    /\ UNCHANGED <<patcher_vars, patched_vars, configurer_vars, now, synced>>

\* saver.run() with SAVESCOPY_STRATEGY sync: _sync_one_manifest for the
\* game.
SyncOneManifest ==
    /\ \E done \in {_sync_one_manifest(src_dir, dst_dir, now)} :
          /\ src_dir' = done.src
          /\ dst_dir' = done.dst
          /\ synced' = [done EXCEPT !.after_quiet = quiet]
          /\ quiet' = IF done.completed THEN TRUE ELSE quiet
    /\ UNCHANGED <<patcher_vars, patched_vars, configurer_vars, now>>

SaverNext ==
    \/ Tick
    \/ \E side \in Sides : \E data \in SaveData : WriteSave(side, data)
    \/ \E side \in Sides : RemoveSave(side)
    \/ SyncOneManifest

SpecSaver == SaverInit /\ [][SaverNext]_vars

\* ----------------------------------------------------------------- claims
\* What the last call of process_single_patch resolved and found there.
Called == last.outcome # "none"
Resolved == last.root # 0
PreTarget == last.target[last.root]
PreBackup == last.backup[last.root]
Info == last.patch_info
Untouched == target = last.target /\ backup = last.backup

\* A CRC string that int(s, 16) reads, and one that is absent or read.
Declared(s) == ParsedCrc[s] # NoValue
WellFormed(s) == s = NoCrc \/ Declared(s)
DeclaresCrcOf(s, content) == Declared(s) /\ ParsedCrc[s] = calculate_crc32(content)

BothRunsOver == run = 2 /\ ~walking
SameTool == (ended[1] = "no_flips") <=> (ended[2] = "no_flips")

\* C1 (as stated): the same catalog run twice in a row on a fresh tree
\* leaves every target and every backup with the same bytes after the
\* second run as after the first.
C1_SecondRunSameBytes ==
    (BothRunsOver /\ SameTool) => snap[2] = snap[1]

\* A target that differs from its backup in bytes but not in fingerprint.
Collides(tree) ==
    \E r \in Roots :
        /\ tree.backup[r] # Absent
        /\ tree.target[r] # tree.backup[r]
        /\ calculate_crc32(tree.target[r]) = calculate_crc32(tree.backup[r])

\* C1 (amended): the second run leaves the same bytes as the first, unless
\* the first run left a target with the fingerprint of its backup but other
\* bytes.
C1_SecondRunSameBytesUnlessCollision ==
    (BothRunsOver /\ SameTool /\ ~Collides(snap[1])) => snap[2] = snap[1]

\* C1 witness: a catalog of a Replace and a Patch entry ran twice, its first
\* run changed a target, and no fingerprint collision arose.
C1_TwoRunsOfAMix ==
    /\ BothRunsOver
    /\ ended[1] = "returned" /\ ended[2] = "returned"
    /\ {patches[i].method : i \in DOMAIN patches} = {"replace", "patch"}
    /\ snap[1].target # pristine
    /\ ~Collides(snap[1])

\* C2: in the second of two runs of the same catalog, every instruction the
\* first run applied is logged as already applied.  Stated for first runs
\* that left every backed-up target with a fingerprint other than its
\* backup's.
C2_SecondRunAlreadyApplied ==
    (/\ BothRunsOver /\ ended[1] # "no_flips" /\ ended[2] # "no_flips"
     /\ \A r \in Roots :
            snap[1].backup[r] # Absent =>
                calculate_crc32(snap[1].target[r]) # calculate_crc32(snap[1].backup[r])) =>
        \A i \in DOMAIN patches :
            log[1][i] = "applied" => log[2][i] = "already_patched"

\* C3: after a successful Replace the backup holds the original bytes of the
\* target (those it had before the Replace that created the backup), so the
\* backup copied over the target restores them; also after repeated runs.
C3_BackupHoldsOriginalBytes ==
    (Resolved /\ Info.method = "replace" /\ last.outcome = "applied") =>
        /\ target[last.root] = source
        /\ backup[last.root] = pristine[last.root]
        /\ PreBackup = Absent => backup[last.root] = PreTarget
        /\ [target EXCEPT ![last.root] = backup[last.root]][last.root]
              = pristine[last.root]

\* C3 witness: a Replace succeeded again on a target that already had a
\* backup, and the target now differs from the backup.
C3_ReplacedAgain ==
    /\ Resolved /\ Info.method = "replace" /\ last.outcome = "applied"
    /\ PreBackup # Absent
    /\ target[last.root] # backup[last.root]

\* C4: a declared targetCrc32 that is not the target's fingerprint, the target
\* not being in the declared patched state, ends the instruction as a CRC
\* mismatch with target and backup as they were.
C4_Mismatching ==
    /\ Resolved
    /\ Declared(Info.target_crc32)
    /\ ~DeclaresCrcOf(Info.target_crc32, PreTarget)
    /\ WellFormed(Info.patched_crc32)
    /\ ~DeclaresCrcOf(Info.patched_crc32, PreTarget)

C4_CrcGate ==
    C4_Mismatching => last.outcome = "mismatch" /\ Untouched

\* C4 witness: a Patch entry met a mismatching target that had no backup.
C4_MismatchWithoutBackup ==
    /\ C4_Mismatching
    /\ Info.method = "patch"
    /\ PreBackup = Absent /\ backup[last.root] = Absent

\* C5 (as stated): when the tool exits non-zero, the target and the backup
\* are as before the attempt, whether or not a backup existed.
C5_ToolFailureTouchesNothing ==
    (last.invoked /\ last.rc # 0) => Untouched

\* C5 (amended): when the tool exits non-zero, the target is as before the
\* attempt and a backup that existed is untouched; a backup that did not
\* exist has been created with the target's bytes.
C5_ToolFailureKeepsTarget ==
    (last.invoked /\ last.rc # 0) =>
        /\ target = last.target
        /\ backup = [last.backup EXCEPT
                        ![last.root] = IF @ = Absent THEN PreTarget ELSE @]

\* C5 witness: the tool failed on a target that had no backup before.
C5_ToolFailedOnFirstAttempt ==
    /\ last.invoked /\ last.rc # 0
    /\ PreBackup = Absent
    /\ last.outcome = "tool_error"

\* C6: once a backup exists, no step writes it again.
C6_BackupWrittenOnce ==
    [][\A r \in Roots : backup[r] # Absent => backup'[r] = backup[r]]_vars

\* C6 witness: an instruction was applied to a target that already had a
\* backup.
C6_AppliedOverBackup ==
    /\ Resolved /\ last.outcome = "applied"
    /\ PreBackup # Absent
    /\ backup[last.root] = PreBackup

\* The backup exists and the target has neither its fingerprint nor the
\* fingerprint declared for the applied state.
C7_Drifted ==
    /\ Resolved
    /\ Info.method \in {"replace", "patch"}
    /\ PreBackup # Absent
    /\ calculate_crc32(PreTarget) # calculate_crc32(PreBackup)
    /\ Info.method = "patch" => ~DeclaresCrcOf(Info.patched_crc32, PreTarget)
    /\ Info.method = "replace" => calculate_crc32(PreTarget) # calculate_crc32(source)

\* C7 (as stated): such an instruction is aborted as drift, the tool is not
\* invoked, target and backup are not modified.  Stated for entries whose
\* CRC strings are hex numerals; a malformed one is the matter of C9.
C7_DriftAborts ==
    (/\ C7_Drifted
     /\ WellFormed(Info.target_crc32) /\ WellFormed(Info.patched_crc32)) =>
        last.outcome = "drift" /\ ~last.invoked /\ Untouched

\* The instruction got past check_file_status: no malformed string, not the
\* declared patched state, no mismatch with a declared targetCrc32.
C7_PassedCrcGate ==
    /\ WellFormed(Info.target_crc32) /\ WellFormed(Info.patched_crc32)
    /\ ~DeclaresCrcOf(Info.patched_crc32, PreTarget)
    /\ Info.target_crc32 = NoCrc \/ DeclaresCrcOf(Info.target_crc32, PreTarget)

\* C7 (amended): such an instruction is never applied (the tool is not
\* invoked, target and backup are not modified); it is aborted as drift when
\* it got past the CRC gate, which otherwise ends it first.
C7_DriftNeverApplied ==
    C7_Drifted =>
        /\ ~last.invoked /\ Untouched
        /\ last.outcome # "applied"
        /\ C7_PassedCrcGate => last.outcome = "drift"

\* C7 witness: a Patch entry was aborted as drift.
C7_PatchAbortedAsDrift ==
    /\ C7_Drifted
    /\ Info.method = "patch"
    /\ last.outcome = "drift"

\* C8: in a run without the tool, every Replace entry of the catalog is
\* still processed.
C8_ReplaceProceedsWithoutTool ==
    \A n \in 1..MaxRuns :
        ended[n] = "no_flips" =>
            \A i \in DOMAIN patches :
                patches[i].method = "replace" => log[n][i] # "none"

\* C9: a run that reads the catalog processes every entry of it, and every
\* failure ends as an outcome of its entry.
C9_NoFailureHaltsRun ==
    \A n \in 1..MaxRuns :
        ended[n] \in {"returned", "raised"} =>
            /\ ended[n] = "returned"
            /\ \A i \in DOMAIN patches : log[n][i] \notin {"none", "raised"}

\* C10: the target is the file under the first root that holds the relative
\* path; no file under another root is touched, whatever the outcome at the
\* first one.
C10_FirstRootOnly ==
    Called =>
        LET holders == {r \in Roots : last.target[r] # Absent} IN
        /\ Resolved => last.root \in holders /\ \A q \in holders : last.root <= q
        /\ (~Resolved /\ last.outcome # "source_missing") => holders = {}
        /\ \A q \in Roots \ {last.root} :
              target[q] = last.target[q] /\ backup[q] = last.backup[q]

\* C10 witness: the application failed at the first of two roots that hold
\* the target, and the second was left alone.
C10_FailedAtFirstOfTwo ==
    /\ Resolved
    /\ last.outcome \in {"mismatch", "drift", "tool_error"}
    /\ Cardinality({r \in Roots : last.target[r] # Absent}) >= 2
    /\ \A q \in Roots \ {last.root} : backup[q] = Absent

\* C12: an instruction that declares patchedCrc32 and is reported as applied
\* leaves a target whose fingerprint is the declared patchedCrc32.
C12_AppliedHasDeclaredFingerprint ==
    (Resolved /\ last.outcome = "applied" /\ Declared(Info.patched_crc32)) =>
        DeclaresCrcOf(Info.patched_crc32, target[last.root])

\* C17: an instruction whose source file is missing, or whose target is
\* under no root, changes no file, and the entry after it in the catalog is
\* processed.
C17_MissingFileSkipsEntryOnly ==
    /\ last.outcome \in {"source_missing", "not_found"} =>
          /\ Untouched
          /\ ended[run] # "raised"
    /\ \A n \in 1..MaxRuns : \A i \in DOMAIN patches :
          (/\ log[n][i] \in {"source_missing", "not_found"}
           /\ ended[n] # "none"
           /\ i < Len(patches)) => log[n][i + 1] # "none"

\* C17 witness: a run is over in which an entry with a missing source and an
\* entry whose target is under no root were each followed by the next entry.
C17_SkippedThenWentOn ==
    /\ ~walking /\ run >= 1 /\ ended[run] = "returned"
    /\ Len(patches) = MaxPatches
    /\ log[run][1] \in {"source_missing", "not_found"}
    /\ log[run][2] # "none"
    /\ backup = [r \in Roots |-> Absent]

\* ------------------------------------------------- claims on the configurer
\* The last call of a modify function has returned or raised, and what it
\* was given.
Returned == call.fn # "none" /\ configuring # "killed"
OneEntry == Len(call.replacements) = 1
Entry == call.replacements[1]

\* C11: a mutation of a target is all-or-nothing: whenever the process is
\* interrupted, the target holds its complete bytes of before the mutation
\* or its complete bytes of after it.
C11_TargetOldOrNew ==
    configuring = "killed" => config_file \in {call.before, call.after}

\* The bytes of a pattern in hex notation, Wild for a ?? group.
Wild == 0 - 1
PatternBytes(hex_pattern) ==
    LET digits == RemoveBlanks(hex_pattern) IN
    [k \in 1..(Len(digits) \div 2) |->
        IF digits[2 * k - 1] = "?" THEN Wild
        ELSE 16 * HexDigitValue(digits[2 * k - 1]) + HexDigitValue(digits[2 * k])]

\* The pattern is at offset i of the buffer.
MatchesAt(buffer, i, pattern_bytes) ==
    /\ i + Len(pattern_bytes) <= Len(buffer)
    /\ \A k \in 1..Len(pattern_bytes) :
          pattern_bytes[k] = Wild \/ buffer[i + k] = pattern_bytes[k]

Offsets(buffer, pattern_bytes) ==
    {i \in 0..Len(buffer) : MatchesAt(buffer, i, pattern_bytes)}

FirstOffset(buffer, pattern_bytes) ==
    CHOOSE i \in Offsets(buffer, pattern_bytes) :
        \A j \in Offsets(buffer, pattern_bytes) : i <= j

\* The wildcards of the pattern are one run of k groups.
WildcardRun(pattern_bytes, k) ==
    \E first \in 1..Len(pattern_bytes) :
        \A i \in 1..Len(pattern_bytes) :
            pattern_bytes[i] = Wild <=> i \in first..(first + k - 1)

\* A call of modify_hex_file with one entry, written in hex digits and ??.
OneHexEntry ==
    /\ Returned /\ call.fn = "modify_hex_file" /\ OneEntry
    /\ call.before # NoFile
    /\ \A i \in 1..Len(Entry.pattern) :
          IsHexDigit(Entry.pattern[i]) \/ Entry.pattern[i] \in {"?", " "}
    /\ fromhex(RemoveBlanks(Entry.value)) # ValueError

\* C13: a hex replacement whose pattern has one wildcard byte leaves the
\* length of the buffer and every byte but the wildcarded one of the first
\* match as they were; when the pattern does not occur the buffer is
\* unchanged and the outcome is PatternNotFound.
C13_OnlyWildcardByteChanges ==
    (OneHexEntry /\ WildcardRun(PatternBytes(Entry.pattern), 1)) =>
        LET pattern_bytes == PatternBytes(Entry.pattern) IN
        IF Offsets(call.before, pattern_bytes) = {}
        THEN call.outcomes[1] = "not_found" /\ call.after = call.before
        ELSE LET wildcard == FirstOffset(call.before, pattern_bytes)
                               + (CHOOSE k \in 1..Len(pattern_bytes) :
                                     pattern_bytes[k] = Wild)
             IN /\ Len(call.after) = Len(call.before)
                /\ \A i \in 1..Len(call.before) :
                      i # wildcard => call.after[i] = call.before[i]

\* A maximal run of decimal digits of the value whose number is over 255.
HasDecimalOver255(value) ==
    \E i \in 1..Len(value) : \E j \in i..Len(value) :
        /\ \A k \in i..j : isdigit(value[k])
        /\ i > 1 => ~isdigit(value[i - 1])
        /\ j < Len(value) => ~isdigit(value[j + 1])
        /\ int(SubSeq(value, i, j)) > 255

\* C14: a hex-kind value with a decimal number outside [0,255] makes its
\* instruction an InvalidEncoding: the instruction is skipped and changes no
\* byte of the file.
C14_DecimalOver255SkipsEntry ==
    (/\ Returned /\ call.fn = "modify_hex_file_with_ascii" /\ OneEntry
     /\ call.before # NoFile
     /\ HasDecimalOver255(Entry.value)) =>
        /\ call.outcomes[1] # "replaced"
        /\ ~call.wrote
        /\ call.after = call.before

\* The value is non-digit characters followed by a run of digits.
TrailingDecimal(value) ==
    \E n \in 1..Len(value) :
        /\ \A i \in 1..Len(value) : isdigit(value[i]) <=> i > Len(value) - n
        /\ int(SubSeq(value, Len(value) - n + 1, Len(value))) <= 255

\* C15: a value of non-digit characters followed by a decimal number n in
\* [0,255] is encoded as the character code of every non-digit character,
\* in order, and then the one byte n.
C15_TrailingDecimalEncoding ==
    (/\ Returned /\ call.fn = "modify_hex_file_with_ascii" /\ OneEntry
     /\ call.before # NoFile
     /\ call.outcomes[1] = "replaced"
     /\ TrailingDecimal(Entry.value)) =>
        LET letters == SelectSeq(Entry.value, LAMBDA ch : ~isdigit(ch))
            number == int(SelectSeq(Entry.value, isdigit))
        IN fromhex(RemoveBlanks(ascii_to_hex_value(Entry.value)))
              = [i \in 1..Len(letters) |-> ord[letters[i]]] \o <<number>>

\* The characters of a value, taken for themselves.
Literal(value) == [i \in 1..Len(value) |-> ord[value[i]]]

\* C16: a text replacement instruction substitutes every match of its
\* pattern in the current content with its value; with zero matches the
\* content is unchanged and the instruction is not a failure; the content
\* it is applied to is the output of the instruction before it.
C16_EveryMatchBecomesValue ==
    (/\ Returned /\ call.fn = "modify_file" /\ OneEntry
     /\ call.before # NoFile
     /\ compile(Entry.pattern) # BadPattern) =>
        LET atoms == compile(Entry.pattern)
            content == read_text(call.before)
        IN /\ ~call.raised
           /\ ~search(atoms, content) => call.after = call.before
           /\ search(atoms, content) =>
                call.after = write_text(sub_from(atoms, Literal(Entry.value),
                                                 content, 0))
           /\ config_file = call.after

\* C18: the file is written at most once in a run, and not at all by
\* instructions that changed nothing of its content.
C18_WrittenOnceIfChanged ==
    /\ writes <= 1
    /\ (Returned /\ call.wrote) => call.after # call.before

\* C19: a hex-kind replacement instruction replaces the first occurrence of
\* its pattern and leaves every later occurrence as it was, with a wildcard
\* in the pattern or without.
C19_FirstOccurrenceOnly ==
    (/\ OneHexEntry
     /\ \/ WildcardRun(PatternBytes(Entry.pattern), 1)
        \/ WildcardRun(PatternBytes(Entry.pattern), 0)
     /\ Offsets(call.before, PatternBytes(Entry.pattern)) # {}) =>
        LET pattern_bytes == PatternBytes(Entry.pattern)
            first == FirstOffset(call.before, pattern_bytes)
        IN call.after =
              Slice(call.before, 0, first)
                \o fromhex(RemoveBlanks(Entry.value))
                \o Slice(call.before, first + Len(pattern_bytes),
                         Len(call.before))

\* C20: a pattern whose wildcards are one run of k >= 1 groups is accepted,
\* and it is found at the smallest offset where the bytes before the run and
\* the bytes after it match, or not found when there is no such offset.
C20_WildcardRunOfAnyLength ==
    (/\ OneHexEntry
     /\ \E k \in 1..Len(Entry.pattern) :
            WildcardRun(PatternBytes(Entry.pattern), k)) =>
        LET pattern_bytes == PatternBytes(Entry.pattern) IN
        /\ call.outcomes[1] \in {"replaced", "not_found"}
        /\ call.outcomes[1] = "not_found" <=>
              Offsets(call.before, pattern_bytes) = {}
        /\ call.outcomes[1] = "replaced" =>
              Slice(call.after, 0, FirstOffset(call.before, pattern_bytes))
                 = Slice(call.before, 0, FirstOffset(call.before, pattern_bytes))

\* C21: of an encoded value longer than the wildcard run of a hex wildcard
\* replacement, the trailing bytes are written into the run and nothing
\* else: the bytes of the buffer after the matched pattern keep their
\* offsets.
C21_ValueGoesIntoWildcardRun ==
    (/\ OneHexEntry
     /\ WildcardRun(PatternBytes(Entry.pattern), 1)
     /\ Offsets(call.before, PatternBytes(Entry.pattern)) # {}
     /\ Len(fromhex(RemoveBlanks(Entry.value))) > 1) =>
        LET pattern_bytes == PatternBytes(Entry.pattern)
            value_bytes == fromhex(RemoveBlanks(Entry.value))
            wildcard == FirstOffset(call.before, pattern_bytes)
                          + (CHOOSE k \in 1..Len(pattern_bytes) :
                                pattern_bytes[k] = Wild)
        IN call.after = [i \in 1..Len(call.before) |->
                            IF i = wildcard THEN value_bytes[Len(value_bytes)]
                            ELSE call.before[i]]

\* One entry of a list of hex replacements on its own: the content it
\* leaves, the content it was given unless it is found and well formed.
OneApplied(content, rep) ==
    LET one == apply_hex_replacement(content, rep.pattern, rep.value) IN
    IF one.outcome = "replaced" THEN one.content ELSE content

RECURSIVE AllApplied(_, _)
AllApplied(content, reps) ==
    IF reps = <<>> THEN content
    ELSE AllApplied(OneApplied(content, Head(reps)), Tail(reps))

\* C22: in a list of hex replacements for one file, an entry with malformed
\* hex or with a pattern that is not found changes nothing, the entries
\* before it and after it are applied, and the file is written with the
\* changes of the entries that succeeded.
C22_FailedHexEntrySkipped ==
    (Returned /\ call.fn = "modify_hex_file" /\ call.before # NoFile) =>
        /\ ~call.raised
        /\ Len(call.outcomes) = Len(call.replacements)
        /\ call.after = AllApplied(call.before, call.replacements)
        /\ config_file = call.after
        /\ call.wrote <=>
              \E i \in 1..Len(call.outcomes) : call.outcomes[i] = "replaced"

\* A list of two entries: a failed one and one that succeeded.
C22_FailedAndReplaced ==
    /\ Returned /\ call.fn = "modify_hex_file" /\ call.before # NoFile
    /\ Len(call.replacements) = 2
    /\ \E i, j \in 1..2 :
          /\ call.outcomes[i] \in {"ValueError", "not_found"}
          /\ call.outcomes[j] = "replaced"
    /\ call.wrote
    /\ config_file # call.before

\* C25: whenever Replace or Patch writes a target, the bytes of the target
\* just before the write are the bytes of its backup.
C25_WrittenOverBackupBytes ==
    (Resolved /\ last.outcome = "applied") => PreTarget = backup[last.root]

\* C25, amended: whenever Replace or Patch writes a target, the fingerprint
\* of the target just before the write is the fingerprint of its backup,
\* which was just created from the target or was there and is kept; so an
\* entry aimed at a target whose fingerprint an earlier entry has changed
\* is never applied: it ends as already applied, as drift, at the CRC gate
\* or on its method.
C25_WrittenOverBackupFingerprint ==
    /\ (Resolved /\ last.outcome = "applied") =>
          /\ calculate_crc32(PreTarget) = calculate_crc32(backup[last.root])
          /\ backup[last.root] = IF PreBackup = Absent THEN PreTarget
                                 ELSE PreBackup
    /\ (/\ Resolved /\ PreBackup # Absent
        /\ calculate_crc32(PreTarget) # calculate_crc32(PreBackup)) =>
          /\ last.outcome \in {"already_patched", "drift", "mismatch",
                                "raised", "ignored"}
          /\ Untouched

\* A Replace entry found the target changed since its backup was taken.
C25_ReplaceNotAppliedAgain ==
    /\ Resolved /\ Info.method = "replace"
    /\ PreBackup # Absent
    /\ calculate_crc32(PreTarget) # calculate_crc32(PreBackup)
    /\ last.outcome \in {"already_patched", "drift"}
    /\ Untouched

\* C23: when the external tool has exited non-zero, <target>.patched does
\* not exist after the Patch instruction has returned.
C23_NoPatchedFileAfterToolError ==
    last.outcome = "tool_error" => patched_file[last.root] = Absent

\* C24: a <target>.patched left by an earlier attempt is never installed as
\* the target: a Patch instruction changes the target only when the tool has
\* exited with status 0 in this attempt, to the file the tool has written
\* then, and what the gates decide does not depend on such a file.
C24_StrayNeverInstalled ==
    /\ (/\ Resolved /\ Info.method = "patch"
        /\ target[last.root] # PreTarget) =>
          /\ last.invoked /\ last.rc = 0
          /\ attempt.root = last.root
          /\ attempt.tool \in Content
          /\ target[last.root] = attempt.tool
          /\ patched_file[last.root] = Absent
    /\ (Called /\ last.outcome # "killed") =>
          last.outcome =
             process_single_patch(Info, SourceContent(Info.file),
                                  last.target, last.backup,
                                  IF last.invoked THEN attempt.tool
                                  ELSE ToolFail).effect.outcome

\* The tool has written over a file left by an earlier attempt, and its
\* output, other bytes than the file held, is the target.
C24_PatchedOverStray ==
    /\ Resolved /\ last.outcome = "applied" /\ last.invoked
    /\ attempt.found # Absent
    /\ attempt.found # attempt.tool
    /\ target[last.root] = attempt.tool
    /\ target[last.root] # PreTarget

\* C26: a sync run after a sync that ran to its end, no save file changed on
\* either side in between, detects no change on either side and copies or
\* removes no file.
C26_SecondSyncDetectsNothing ==
    synced.after_quiet =>
        /\ synced.detected = "no_changes"
        /\ synced.copied = {}
        /\ synced.removed = {}
        /\ src_dir = synced.src /\ dst_dir = synced.dst

====
